---- MODULE Spec2Model ----
(***************************************************************************)
(* A model of the PNG chunk codec of png-msg-encoder:                      *)
(*   src/src/chunk_type.rs  ChunkType, its constructors and queries        *)
(*   src/src/chunk.rs       Chunk, Chunk::new, as_bytes, TryFrom<&[u8]>    *)
(* Bytes are the integers 0..255, a Vec<u8> or slice is a sequence of      *)
(* bytes, a &str is the sequence of its chars (Unicode scalar values), and *)
(* a Result is a record [kind, val, msg] with kind "Ok", "Err" or, for an  *)
(* unwrap() or an arithmetic check that aborts the call, "Panic".          *)
(***************************************************************************)
EXTENDS Integers, Sequences, FiniteSets, TLC

VARIABLES tag, chunk, buf, edits, ret

vars == <<tag, chunk, buf, edits, ret>>

(***************************************************************************)
(* Bounds of the model.                                                    *)
(***************************************************************************)
\* longest payload handed to Chunk::new
MaxPayload == 2
\* most edits (overwritten byte, rewritten length field, truncation) made
\* to a serialized buffer before it is parsed
MaxEdits == 1
\* longest &str (in chars) handed to ChunkType::from_str
MaxStrLen == 4

\* bytes a payload is made of: the two bytes of the UTF-8 form of U+00E9, so
\* that payloads are valid text (none, or both in order) and invalid text
PayloadBytes == {195, 169}
\* type-tag bytes tried by ChunkType::try_from: 'A', 'Z', 'a', 'z', the four
\* values just outside the two letter ranges, and the digit '1'
TypeBytes == {65, 90, 97, 122, 64, 91, 96, 123, 49}
\* chars a &str is made of: 'R', 't', '1', U+00E9 (2 bytes in UTF-8),
\* U+20AC (3 bytes) and U+1F600 (4 bytes)
StrChars == {82, 116, 49, 233, 8364, 128512}
\* type tags of the chunks built, as text: "RuSt" and "Rust"
TagNames == {<<82, 117, 83, 116>>, <<82, 117, 115, 116>>}
\* the payload of the tests' chunk,
\* "This is where your secret message will be!"
FixtureMessage ==
    <<84, 104, 105, 115, 32, 105, 115, 32, 119, 104, 101, 114, 101, 32, 121, 111,
      117, 114, 32, 115, 101, 99, 114, 101, 116, 32, 109, 101, 115, 115, 97, 103,
      101, 32, 119, 105, 108, 108, 32, 98, 101, 33>>
\* values written over one byte of a serialized buffer: '1' and 't'
EditBytes == {49, 116}
\* values written over the declared length (bytes 0..4) of a serialized
\* buffer: 0, 42 and 2^32 - 1
DeclaredLengths == {<<0, 0, 0, 0>>, <<0, 0, 0, 42>>, <<255, 255, 255, 255>>}

(***************************************************************************)
(* Results.                                                                *)
(***************************************************************************)
Ok(v) == [kind |-> "Ok", val |-> <<v>>, msg |-> ""]
Err(m) == [kind |-> "Err", val |-> <<>>, msg |-> m]
Panic(m) == [kind |-> "Panic", val |-> <<>>, msg |-> m]
None == <<>>
Some(v) == <<v>>

(***************************************************************************)
(* u32 values. TLC's integers are 32-bit signed, so a u32 is kept as its   *)
(* two 16-bit halves [hi, lo], which stands for hi * 2^16 + lo.            *)
(***************************************************************************)
Half == 65536

\* `n as u32` for a usize n: the low 32 bits
as_u32(n) == [hi |-> (n \div Half) % Half, lo |-> n % Half]

\* the bytes in little-endian order
to_le_bytes(x) == <<x.lo % 256, x.lo \div 256, x.hi % 256, x.hi \div 256>>

\* u32::to_be_bytes
to_be_bytes(x) == <<x.hi \div 256, x.hi % 256, x.lo \div 256, x.lo % 256>>

\* u32::from_be_bytes
from_be_bytes(b) == [hi |-> b[1] * 256 + b[2], lo |-> b[3] * 256 + b[4]]

\* Iterator::take(n).collect() on what is left of an iterator, and the rest
take(s, n) == SubSeq(s, 1, IF n < Len(s) THEN n ELSE Len(s))
skip(s, n) == SubSeq(s, (IF n < Len(s) THEN n ELSE Len(s)) + 1, Len(s))

(***************************************************************************)
(* CRC-32/ISO-HDLC as the crc crate computes it (crc::CRC_32_ISO_HDLC:     *)
(* poly 0x04C11DB7, init 0xFFFFFFFF, refin, refout, xorout 0xFFFFFFFF):    *)
(* byte by byte, through a table of 256 entries for the reflected          *)
(* polynomial 0xEDB88320.                                                  *)
(***************************************************************************)
RECURSIVE XorBits(_, _, _)
XorBits(a, b, n) ==
    IF n = 0 THEN 0
    ELSE ((a + b) % 2) + 2 * XorBits(a \div 2, b \div 2, n - 1)

XorNibble == [a \in 0..15 |-> [b \in 0..15 |-> XorBits(a, b, 4)]]

RECURSIVE Xor16(_, _)
Xor16(a, b) ==
    IF a = 0 THEN b
    ELSE IF b = 0 THEN a
    ELSE XorNibble[a % 16][b % 16] + 16 * Xor16(a \div 16, b \div 16)

Xor32(x, y) == [hi |-> Xor16(x.hi, y.hi), lo |-> Xor16(x.lo, y.lo)]

\* x >> n for n < 16
Shr32(x, n) ==
    [hi |-> x.hi \div (2 ^ n),
     lo |-> (x.hi % (2 ^ n)) * (2 ^ (16 - n)) + x.lo \div (2 ^ n)]

ReflectedPoly == [hi |-> 60856, lo |-> 33568]
AllOnes == [hi |-> Half - 1, lo |-> Half - 1]

RECURSIVE CrcTableEntry(_, _)
CrcTableEntry(c, k) ==
    IF k = 0 THEN c
    ELSE CrcTableEntry(IF c.lo % 2 = 1 THEN Xor32(Shr32(c, 1), ReflectedPoly)
                                       ELSE Shr32(c, 1), k - 1)

CrcTable == [b \in 0..255 |-> CrcTableEntry([hi |-> 0, lo |-> b], 8)]

\* the register after the first n bytes of bs, c0 being the register before
RECURSIVE CrcUpdate(_, _, _)
CrcUpdate(c0, bs, n) ==
    IF n = 0 THEN c0
    ELSE LET c == CrcUpdate(c0, bs, n - 1)
         IN  Xor32(CrcTable[Xor16(c.lo % 256, bs[n])], Shr32(c, 8))

\* CRC.checksum(bs)
CRC_checksum(bs) == Xor32(CrcUpdate(AllOnes, bs, Len(bs)), AllOnes)

(***************************************************************************)
(* Text of the standard library: a &str is a sequence of chars, as_bytes   *)
(* is its UTF-8 encoding and String::from_utf8 the checked decoding.       *)
(***************************************************************************)
\* u8::is_ascii_alphabetic and char::is_ascii_alphabetic
is_ascii_alphabetic(c) == (c >= 65 /\ c <= 90) \/ (c >= 97 /\ c <= 122)

\* the UTF-8 encoding of one char
encode_utf8(c) ==
    IF c < 128 THEN <<c>>
    ELSE IF c < 2048 THEN <<192 + (c \div 64), 128 + (c % 64)>>
    ELSE IF c < 65536
    THEN <<224 + (c \div 4096), 128 + ((c \div 64) % 64), 128 + (c % 64)>>
    ELSE <<240 + (c \div 262144), 128 + ((c \div 4096) % 64),
           128 + ((c \div 64) % 64), 128 + (c % 64)>>

\* str::as_bytes
RECURSIVE str_as_bytes(_)
str_as_bytes(s) ==
    IF s = <<>> THEN <<>> ELSE encode_utf8(Head(s)) \o str_as_bytes(Tail(s))

\* the width of the char a first byte announces, 0 for a byte no char starts with
utf8_char_width(b) ==
    IF b < 128 THEN 1
    ELSE IF b >= 194 /\ b <= 223 THEN 2
    ELSE IF b >= 224 /\ b <= 239 THEN 3
    ELSE IF b >= 240 /\ b <= 244 THEN 4
    ELSE 0

\* String::from_utf8 on v from index i on: Ok(the chars) or Err
RECURSIVE from_utf8_at(_, _)
from_utf8_at(v, i) ==
    IF i > Len(v) THEN Ok(<<>>)
    ELSE LET b0 == v[i]
             w == utf8_char_width(b0)
             cont(k) == i + k <= Len(v) /\ v[i + k] >= 128 /\ v[i + k] <= 191
             second(lo, hi) == i + 1 <= Len(v) /\ v[i + 1] >= lo /\ v[i + 1] <= hi
             wellformed ==
                 CASE w = 1 -> TRUE
                   [] w = 2 -> cont(1)
                   [] w = 3 -> /\ IF b0 = 224 THEN second(160, 191)
                                  ELSE IF b0 = 237 THEN second(128, 159)
                                  ELSE second(128, 191)
                               /\ cont(2)
                   [] w = 4 -> /\ IF b0 = 240 THEN second(144, 191)
                                  ELSE IF b0 = 244 THEN second(128, 143)
                                  ELSE second(128, 191)
                               /\ cont(2)
                               /\ cont(3)
                   [] OTHER -> FALSE
             ch == CASE w = 1 -> b0
                      [] w = 2 -> (b0 - 192) * 64 + (v[i + 1] - 128)
                      [] w = 3 -> ((b0 - 224) * 64 + (v[i + 1] - 128)) * 64 + (v[i + 2] - 128)
                      [] OTHER -> (((b0 - 240) * 64 + (v[i + 1] - 128)) * 64
                                      + (v[i + 2] - 128)) * 64 + (v[i + 3] - 128)
             rest == from_utf8_at(v, i + w)
         IN  IF ~wellformed THEN Err("invalid utf-8 sequence")
             ELSE IF rest.kind # "Ok" THEN rest
             ELSE Ok(<<ch>> \o rest.val[1])

from_utf8(v) == from_utf8_at(v, 1)

(***************************************************************************)
(* chunk_type.rs: a ChunkType is the record [bytes |-> its 4 bytes].       *)
(***************************************************************************)
bytes(self) == self.bytes

is_critical(self) ==
    LET first_byte == self.bytes[1]
        fifth_bit == (first_byte \div 32) % 2
    IN  fifth_bit = 0

is_public(self) ==
    LET second_byte == bytes(self)[2]
        fifth_bit == (second_byte \div 32) % 2
    IN  fifth_bit = 0

is_reserved_bit_valid(self) ==
    LET third_byte == bytes(self)[3]
        fifth_bit == (third_byte \div 32) % 2
    IN  fifth_bit = 0

\* the test of the other three queries, applied to the fourth byte
is_safe_to_copy_clear(self) == (bytes(self)[4] \div 32) % 2 = 0

is_safe_to_copy(self) ==
    LET fourth_byte == bytes(self)[4]
        fifth_bit == (fourth_byte \div 32) % 2
    IN  fifth_bit = 1

is_valid(self) == is_reserved_bit_valid(self)

\* impl FromStr for ChunkType
from_str(s) ==
    LET bs == str_as_bytes(s)
    IN  IF Len(bs) # 4 THEN Err("input str length is not 4")
        ELSE IF \E i \in 1..Len(s) : ~is_ascii_alphabetic(s[i])
             THEN Err("input str has non alphabetic ascii character(s)")
        ELSE Ok([bytes |-> bs])

\* a check that stops one byte short
ChunkType_try_from_first3(value) ==
    IF \E i \in 1..3 : ~is_ascii_alphabetic(value[i])
    THEN Err("Value is not valid ascii alphabet")
    ELSE Ok([bytes |-> value])

\* impl TryFrom<[u8; 4]> for ChunkType
ChunkType_try_from(value) ==
    IF \E i \in 1..4 : ~is_ascii_alphabetic(value[i])
    THEN Err("Value is not valid ascii alphabet")
    ELSE Ok([bytes |-> value])

(***************************************************************************)
(* chunk.rs: a Chunk is the record [length, chunk_type, data, crc].        *)
(***************************************************************************)
\* a checksum over the payload alone
Chunk_new_payload_crc(ty, payload) ==
    [length |-> as_u32(Len(payload)),
     crc |-> CRC_checksum(payload),
     chunk_type |-> ty,
     data |-> payload]

Chunk_new(ty, payload) ==
    [length |-> as_u32(Len(payload)),
     crc |-> CRC_checksum(bytes(ty) \o payload),
     chunk_type |-> ty,
     data |-> payload]

length(self) == self.length
chunk_type(self) == self.chunk_type
data(self) == self.data
crc(self) == self.crc

data_as_string(self) == from_utf8(data(self))

\* the checksum written before the payload
as_bytes_crc_first(self) ==
    to_be_bytes(length(self)) \o bytes(chunk_type(self)) \o to_be_bytes(crc(self))
        \o data(self)

as_bytes(self) ==
    to_be_bytes(length(self)) \o bytes(chunk_type(self)) \o data(self)
        \o to_be_bytes(crc(self))

\* impl fmt::Display for Chunk: the three values the text is made of
Chunk_fmt(self) == <<length(self), bytes(chunk_type(self)), crc(self)>>

\* a parse that does not compare the checksums
Chunk_try_from_unchecked(bs, overflow_checks) ==
    IF Len(bs) < 12 \/ ChunkType_try_from(take(skip(bs, 4), 4)).kind # "Ok"
    THEN Panic("unwrap")
    ELSE Ok(Chunk_new(ChunkType_try_from(take(skip(bs, 4), 4)).val[1],
                      take(skip(bs, 8), Len(bs) - 12)))

\* a parse that cross-checks the declared length
Chunk_try_from_strict(bs, overflow_checks) ==
    IF Len(bs) < 12 \/ ChunkType_try_from(take(skip(bs, 4), 4)).kind # "Ok"
    THEN Panic("unwrap")
    ELSE LET c == Chunk_new(ChunkType_try_from(take(skip(bs, 4), 4)).val[1],
                            take(skip(bs, 8), Len(bs) - 12))
         IN  IF from_be_bytes(take(bs, 4)) # c.length THEN Err("Wrong length")
             ELSE IF c.crc # from_be_bytes(skip(bs, Len(bs) - 4)) THEN Err("Wrong crc")
             ELSE Ok(c)

\* impl TryFrom<&[u8]> for Chunk. overflow_checks is the build's setting for
\* integer overflow: on (the dev profile), data_len - 12 aborts when
\* data_len < 12; off (the release profile), it wraps to a count larger than
\* what is left of the iterator, so take() yields all of it.
Chunk_try_from(bs, overflow_checks) ==
    LET data_len == Len(bs)
        first_four_bytes == take(bs, 4)
        after_first == skip(bs, 4)
        second_four_bytes == take(after_first, 4)
        after_second == skip(after_first, 4)
        ty == ChunkType_try_from(second_four_bytes)
        count == data_len - 12
        data_bytes == IF count >= 0 THEN take(after_second, count) ELSE after_second
        crc_byte == IF count >= 0 THEN skip(after_second, count) ELSE <<>>
        c == Chunk_new(ty.val[1], data_bytes)
    IN  IF Len(first_four_bytes) # 4
        THEN Panic("chunk.rs:69 try_into().unwrap() on fewer than 4 bytes")
        ELSE IF Len(second_four_bytes) # 4
        THEN Panic("chunk.rs:73 try_into().unwrap() on fewer than 4 bytes")
        ELSE IF ty.kind # "Ok"
        THEN Panic("chunk.rs:73 ChunkType::try_from(..).unwrap() on Err")
        ELSE IF count < 0 /\ overflow_checks
        THEN Panic("chunk.rs:75 attempt to subtract with overflow")
        ELSE IF Len(crc_byte) # 4
        THEN Panic("chunk.rs:77 try_into().unwrap() on fewer than 4 bytes")
        ELSE IF c.crc # from_be_bytes(crc_byte) THEN Err("Wrong crc")
        ELSE Ok(c)

(***************************************************************************)
(* The state: a caller that holds at most one ChunkType (tag), at most one *)
(* Chunk (chunk) and one byte buffer (buf), and the last call it made with *)
(* its argument (for a method, the receiver as it was before the call) and *)
(* its result (ret). edits counts the changes made to buf since it was     *)
(* last written by as_bytes.                                               *)
(***************************************************************************)
Nothing == [kind |-> "None", val |-> <<>>, msg |-> ""]
Call(op, arg, res) == [op |-> op, arg |-> arg, res |-> res]

SeqsUpTo(S, n) == UNION {[1..k -> S] : k \in 0..n}

Init ==
    /\ tag = None
    /\ chunk = None
    /\ buf = <<>>
    /\ edits = 0
    /\ ret = Call("start", <<>>, Nothing)

\* Nothing is held: constructors are called from here, and Drop leads back
Fresh == ret.op = "start"

\* every value the caller holds goes out of scope
Drop ==
    /\ ~Fresh
    /\ tag' = None
    /\ chunk' = None
    /\ buf' = <<>>
    /\ edits' = 0
    /\ ret' = Call("start", <<>>, Nothing)

(***************************************************************************)
(* The caller of chunk_type.rs.                                            *)
(***************************************************************************)
TryFromBytes ==
    \E value \in [1..4 -> TypeBytes] :
        LET r == ChunkType_try_from(value)
        IN  /\ Fresh
            /\ tag' = r.val
            /\ ret' = Call("ChunkType::try_from", value, r)
            /\ UNCHANGED <<chunk, buf, edits>>

FromStr ==
    \E s \in SeqsUpTo(StrChars, MaxStrLen) :
        LET r == from_str(s)
        IN  /\ Fresh
            /\ tag' = r.val
            /\ ret' = Call("ChunkType::from_str", s, r)
            /\ UNCHANGED <<chunk, buf, edits>>

Query(op, v) ==
    /\ tag # None
    /\ ret' = Call(op, tag, Ok(v))
    /\ UNCHANGED <<tag, chunk, buf, edits>>

Bytes == tag # None /\ Query("bytes", bytes(tag[1]))
IsCritical == tag # None /\ Query("is_critical", is_critical(tag[1]))
IsPublic == tag # None /\ Query("is_public", is_public(tag[1]))
IsReservedBitValid ==
    tag # None /\ Query("is_reserved_bit_valid", is_reserved_bit_valid(tag[1]))
IsSafeToCopy == tag # None /\ Query("is_safe_to_copy", is_safe_to_copy(tag[1]))
IsValid == tag # None /\ Query("is_valid", is_valid(tag[1]))

NextType ==
    \/ TryFromBytes
    \/ FromStr
    \/ Bytes
    \/ IsCritical
    \/ IsPublic
    \/ IsReservedBitValid
    \/ IsSafeToCopy
    \/ IsValid
    \/ Drop

SpecType == Init /\ [][NextType]_vars

(***************************************************************************)
(* The caller of chunk.rs.                                                 *)
(***************************************************************************)
\* Chunk::new(ChunkType::from_str(name).unwrap(), payload), as test_new_chunk
NewChunk ==
    \E name \in TagNames, payload \in SeqsUpTo(PayloadBytes, MaxPayload) :
        LET c == Chunk_new(from_str(name).val[1], payload)
        IN  /\ Fresh
            /\ chunk' = Some(c)
            /\ buf' = <<>>
            /\ edits' = 0
            /\ ret' = Call("Chunk::new", <<name, payload>>, Ok(c))
            /\ UNCHANGED tag

\* format!("{}", chunk): reads length(), chunk_type() and crc()
Display ==
    /\ chunk # None
    /\ ret' = Call("fmt", chunk, Ok(Chunk_fmt(chunk[1])))
    /\ UNCHANGED <<tag, chunk, buf, edits>>

DataAsString ==
    /\ chunk # None
    /\ ret' = Call("data_as_string", chunk, data_as_string(chunk[1]))
    /\ UNCHANGED <<tag, chunk, buf, edits>>

\* buf = chunk.as_bytes()
AsBytes ==
    /\ chunk # None
    /\ buf' = as_bytes(chunk[1])
    /\ edits' = 0
    /\ ret' = Call("as_bytes", chunk, Ok(buf'))
    /\ UNCHANGED <<tag, chunk>>

\* the caller, or the medium, overwrites one byte of the buffer
SetByte ==
    \E i \in 1..Len(buf), v \in EditBytes :
        /\ edits < MaxEdits
        /\ buf[i] # v
        /\ buf' = [buf EXCEPT ![i] = v]
        /\ edits' = edits + 1
        /\ ret' = Call("edit", <<>>, Nothing)
        /\ UNCHANGED <<tag, chunk>>

\* ... rewrites the declared length, bytes 0..4
SetDeclaredLength ==
    \E l \in DeclaredLengths :
        /\ edits < MaxEdits
        /\ Len(buf) >= 4
        /\ take(buf, 4) # l
        /\ buf' = l \o skip(buf, 4)
        /\ edits' = edits + 1
        /\ ret' = Call("edit", <<>>, Nothing)
        /\ UNCHANGED <<tag, chunk>>

\* ... cuts the buffer short
Truncate ==
    \E n \in 0..(Len(buf) - 1) :
        /\ edits < MaxEdits
        /\ buf' = take(buf, n)
        /\ edits' = edits + 1
        /\ ret' = Call("edit", <<>>, Nothing)
        /\ UNCHANGED <<tag, chunk>>

\* Chunk::try_from(buf.as_ref()), under either build profile
Parse ==
    \E overflow_checks \in BOOLEAN :
        /\ ret' = Call("Chunk::try_from", buf, Chunk_try_from(buf, overflow_checks))
        /\ UNCHANGED <<tag, chunk, buf, edits>>

\* let chunk = Chunk::try_from(..).unwrap(): the caller keeps the parsed chunk
Bind ==
    /\ ret.op = "Chunk::try_from"
    /\ ret.res.kind = "Ok"
    /\ chunk' = ret.res.val
    /\ ret' = Call("bind", <<>>, Nothing)
    /\ UNCHANGED <<tag, buf, edits>>

Next ==
    \/ NewChunk
    \/ Display
    \/ DataAsString
    \/ AsBytes
    \/ SetByte
    \/ SetDeclaredLength
    \/ Truncate
    \/ Parse
    \/ Bind
    \/ Drop

Spec == Init /\ [][Next]_vars

(***************************************************************************)
(* What the properties are stated with, independently of the definitions   *)
(* above: the letters as a set, a bit of a byte by its remainder, and      *)
(* CRC-32/ISO-HDLC bit by bit, without a table.                            *)
(***************************************************************************)
Letters == (65..90) \cup (97..122)
Bit20Clear(b) == b % 64 < 32
U32Of(b1, b2, b3, b4) == [hi |-> 256 * b1 + b2, lo |-> 256 * b3 + b4]

U32s == [hi : 0..(Half - 1), lo : 0..(Half - 1)]

\* k steps of the shift register
RefShift[r \in U32s, k \in 0..8] ==
    IF k = 0 THEN r
    ELSE RefShift[IF r.lo % 2 = 1 THEN Xor32(Shr32(r, 1), ReflectedPoly)
                                  ELSE Shr32(r, 1), k - 1]

\* the register after the first n bytes
RECURSIVE RefRegister(_, _)
RefRegister(bs, n) ==
    IF n = 0 THEN AllOnes
    ELSE LET r == RefRegister(bs, n - 1)
         IN  RefShift[[hi |-> r.hi, lo |-> Xor16(r.lo, bs[n])], 8]

Crc32Reference(bs) ==
    LET r == RefRegister(bs, Len(bs))
    IN  [hi |-> Half - 1 - r.hi, lo |-> Half - 1 - r.lo]

\* the last call was Chunk::try_from, on the buffer ret.arg
Parsed == ret.op = "Chunk::try_from"
\* the parts of a buffer of at least 12 bytes
TypeField(b) == SubSeq(b, 5, 8)
PayloadField(b) == SubSeq(b, 9, Len(b) - 4)
StoredCrc(b) == U32Of(b[Len(b) - 3], b[Len(b) - 2], b[Len(b) - 1], b[Len(b)])
ChecksumMatches(b) == StoredCrc(b) = Crc32Reference(TypeField(b) \o PayloadField(b))
LetterType(b) == \A i \in 5..8 : b[i] \in Letters

(***************************************************************************)
(* C1. Round trip: parsing the serialization of a chunk built by           *)
(* Chunk::new succeeds and yields a chunk with the same length, type tag,  *)
(* payload and checksum, the empty payload included.                       *)
(***************************************************************************)
RoundTrip ==
    (Parsed /\ chunk # None /\ ret.arg = as_bytes(chunk[1])) =>
        /\ ret.res.kind = "Ok"
        /\ ret.res.val[1].length = chunk[1].length
        /\ ret.res.val[1].chunk_type = chunk[1].chunk_type
        /\ ret.res.val[1].data = chunk[1].data
        /\ ret.res.val[1].crc = chunk[1].crc

RoundTripWitness ==
    /\ Parsed
    /\ chunk # None
    /\ edits = 0
    /\ ret.arg = as_bytes(chunk[1])
    /\ Len(chunk[1].data) >= 1
    /\ ret.res.kind = "Ok"

(***************************************************************************)
(* C2. Checksum rejection: a buffer of at least 12 bytes with a letter-only*)
(* type field whose stored checksum differs from the CRC-32 of its type    *)
(* and payload fields is answered with an error, and no chunk.             *)
(***************************************************************************)
ChecksumRejection ==
    (Parsed /\ Len(ret.arg) >= 12 /\ LetterType(ret.arg) /\ ~ChecksumMatches(ret.arg)) =>
        /\ ret.res.kind = "Err"
        /\ ret.res.val = <<>>

ChecksumRejectionWitness ==
    /\ Parsed
    /\ Len(ret.arg) >= 13
    /\ LetterType(ret.arg)
    /\ ~ChecksumMatches(ret.arg)
    /\ ret.res.kind = "Err"

(***************************************************************************)
(* C3. Minimum-length rejection: a buffer of 0 to 11 bytes is answered     *)
(* with an error value; the call does not panic.                           *)
(***************************************************************************)
MinimumLengthRejection ==
    (Parsed /\ Len(ret.arg) < 12) => ret.res.kind = "Err"

(***************************************************************************)
(* C4. Invalid type bytes in parse: a buffer of at least 12 bytes with a   *)
(* byte that is no letter among bytes 4..8 is answered with an error       *)
(* value; the call does not panic and returns no chunk.                    *)
(***************************************************************************)
InvalidTypeBytesRejection ==
    (Parsed /\ Len(ret.arg) >= 12 /\ ~LetterType(ret.arg)) => ret.res.kind = "Err"

(***************************************************************************)
(* C5. Chunk invariant: every chunk the caller holds or is handed by       *)
(* Chunk::new or by a successful Chunk::try_from has length equal to the   *)
(* number of payload bytes and crc equal to CRC-32/ISO-HDLC of its type    *)
(* bytes followed by its payload; fmt (the accessors), data_as_string and  *)
(* as_bytes leave the chunk as it was. The checksum is the one             *)
(* test_new_chunk expects: "RuSt" with the tests' message has length 42    *)
(* and crc 2882656334 (0xABD1D84E).                                        *)
(***************************************************************************)
\* the checksum of "RuSt" and the tests' message, the register carried over
\* three stretches of the 46 bytes
FixtureBytes == <<82, 117, 83, 116>> \o FixtureMessage
FixtureRegisterA == CrcUpdate(AllOnes, SubSeq(FixtureBytes, 1, 16), 16)
FixtureRegisterB == CrcUpdate(FixtureRegisterA, SubSeq(FixtureBytes, 17, 32), 16)
FixtureRegisterC == CrcUpdate(FixtureRegisterB, SubSeq(FixtureBytes, 33, 46), 14)
FixtureCrc == Xor32(FixtureRegisterC, AllOnes)

Consistent(c) ==
    /\ c.length.hi = 0
    /\ c.length.lo = Len(c.data)
    /\ c.crc = Crc32Reference(c.chunk_type.bytes \o c.data)

SerializationLayout ==
    ret.op = "as_bytes" =>
        LET c == chunk[1]
            out == ret.res.val[1]
            n == Len(c.data)
        IN  /\ ret.res.kind = "Ok"
            /\ chunk = ret.arg
            /\ buf = out
            /\ c.length.hi = 0
            /\ Len(out) = 12 + c.length.lo
            /\ \A i \in 1..Len(out) : out[i] \in 0..255
            /\ U32Of(out[1], out[2], out[3], out[4]) = c.length
            /\ SubSeq(out, 5, 8) = c.chunk_type.bytes
            /\ SubSeq(out, 9, 8 + n) = c.data
            /\ U32Of(out[9 + n], out[10 + n], out[11 + n], out[12 + n]) = c.crc

SerializationLayoutWitness ==
    /\ ret.op = "as_bytes"
    /\ Len(chunk[1].data) >= 1
    /\ Len(buf) = 12 + Len(chunk[1].data)

(***************************************************************************)
(* C7. Tag construction from raw bytes: ChunkType::try_from succeeds       *)
(* exactly when the 4 bytes are ASCII letters; the tag then holds these    *)
(* bytes, case preserved; on failure there is no tag, so every tag holds   *)
(* 4 ASCII letters.                                                        *)
(***************************************************************************)
TagFromBytes ==
    /\ ret.op = "ChunkType::try_from" =>
           /\ ret.res.kind = "Ok" <=> \A i \in 1..4 : ret.arg[i] \in Letters
           /\ ret.res.kind = "Ok" => (ret.res.val[1].bytes = ret.arg /\ tag = ret.res.val)
           /\ ret.res.kind # "Ok" => (ret.res.kind = "Err" /\ tag = None)
    /\ tag # None =>
           (Len(tag[1].bytes) = 4 /\ \A i \in 1..4 : tag[1].bytes[i] \in Letters)

TagFromBytesWitness ==
    /\ ret.op = "ChunkType::try_from"
    /\ ret.res.kind = "Ok"
    /\ ret.arg = <<65, 122, 90, 97>>
    /\ tag = <<[bytes |-> <<65, 122, 90, 97>>]>>

(***************************************************************************)
(* C8. Tag construction from text: from_str fails with the length error    *)
(* unless the string has exactly 4 characters, with the character error    *)
(* if it has 4 and one is no ASCII letter, and otherwise succeeds as       *)
(* ChunkType::try_from on the 4 bytes; also for multi-byte characters.     *)
(***************************************************************************)
TagFromText ==
    ret.op = "ChunkType::from_str" =>
        IF Len(ret.arg) # 4
        THEN ret.res.kind = "Err" /\ ret.res.msg = "input str length is not 4"
        ELSE IF \E i \in 1..4 : ret.arg[i] \notin Letters
        THEN /\ ret.res.kind = "Err"
             /\ ret.res.msg = "input str has non alphabetic ascii character(s)"
        ELSE ret.res = ChunkType_try_from(ret.arg)

(***************************************************************************)
(* C9. Tag classification: is_critical, is_public and                      *)
(* is_reserved_bit_valid tell that bit 0x20 of byte 0, 1, 2 is clear,      *)
(* is_safe_to_copy that bit 0x20 of byte 3 is set, is_valid is             *)
(* is_reserved_bit_valid whatever the other bytes; no query changes the    *)
(* tag.                                                                    *)
(***************************************************************************)
Queries == {"bytes", "is_critical", "is_public", "is_reserved_bit_valid",
            "is_safe_to_copy", "is_valid"}

TagClassification ==
    ret.op \in Queries =>
        LET b == ret.arg[1].bytes
            v == ret.res.val[1]
        IN  /\ tag = ret.arg
            /\ ret.res.kind = "Ok"
            /\ ret.op = "is_critical" => (v <=> Bit20Clear(b[1]))
            /\ ret.op = "is_public" => (v <=> Bit20Clear(b[2]))
            /\ ret.op = "is_reserved_bit_valid" => (v <=> Bit20Clear(b[3]))
            /\ ret.op = "is_safe_to_copy" => (v <=> ~Bit20Clear(b[4]))
            /\ ret.op = "is_valid" => (v <=> Bit20Clear(b[3]))
            /\ ret.op = "bytes" => v = b

TagClassificationWitness ==
    /\ ret.op = "is_valid"
    /\ tag = <<[bytes |-> <<116, 116, 82, 82>>]>>
    /\ ret.res.val[1] = TRUE

(***************************************************************************)
(* C10. The declared length is not cross-checked: a buffer of at least 12  *)
(* bytes with a letter-only type field and a matching checksum parses      *)
(* whatever its first 4 bytes are; the chunk's payload is bytes 8..len-4   *)
(* and its length is the buffer's length less 12, so buffers that differ   *)
(* in their first 4 bytes only parse to equal chunks.                      *)
(***************************************************************************)
DeclaredLengthIgnored ==
    (Parsed /\ Len(ret.arg) >= 12 /\ LetterType(ret.arg) /\ ChecksumMatches(ret.arg)) =>
        /\ ret.res.kind = "Ok"
        /\ ret.res.val[1].data = PayloadField(ret.arg)
        /\ ret.res.val[1].length = [hi |-> 0, lo |-> Len(ret.arg) - 12]
        /\ \A l \in DeclaredLengths :
               Chunk_try_from(l \o skip(ret.arg, 4), TRUE) = ret.res

DeclaredLengthIgnoredWitness ==
    /\ Parsed
    /\ Len(ret.arg) >= 13
    /\ take(ret.arg, 4) = <<255, 255, 255, 255>>
    /\ ret.res.kind = "Ok"
    /\ ret.res.val[1].length = [hi |-> 0, lo |-> Len(ret.arg) - 12]

====
